---------------------------- MODULE Spec2Model ----------------------------
(***************************************************************************)
(* A model of the metadata journal core, MDLog (mds/MDLog.cc): the         *)
(* appender (submit_entry, start_new_segment, flush, cap), the trimmer     *)
(* (trim, try_trim, _maybe_trimmed, _trimmed) and the replayer (replay,    *)
(* _replay_thread), over a Journaler whose positions, append, flush and    *)
(* read behave as the specification's streamer interface describes.        *)
(*                                                                         *)
(* Every action is one handler run under mds_lock.  The replay thread is   *)
(* the one multi-step process: it gives the lock up while it waits on      *)
(* replay_cond and between two entries, so its position is the variable    *)
(* pc.  The host does not call the appender or the trimmer while a replay  *)
(* is running (spec section 5), and calls create/open only on a freshly    *)
(* constructed MDLog.                                                      *)
(***************************************************************************)
EXTENDS Integers, Sequences, FiniteSets, TLC

\* ------------------------------------------------------------------ bounds
\* The journal is cut off at this write position.
MaxWritePos == 5
\* How many times the server may be restarted on the same journal.
MaxRestarts == 2

\* The segment-boundary policy is exercised on logs whose last segment
\* starts at up to this offset and holds up to this many events, and that
\* are written up to this position.
PolicyMaxOffset == 6
PolicyMaxEvents == 4
PolicyMaxWritePos == 12

\* ----------------------------------------------------------- configuration
\* log_inode.layout.period(): the stripe period of the journal's layout.
Period == 3
\* The stripe periods the boundary policy is exercised with.
Periods == {3, 4, 6, 8}
\* Encoded size of a subtree-map checkpoint entry and of any other event.
SubtreeMapLen == 2
EventLen == 1
\* What max_events, max_segments and g_conf.mds_log_max_trimming may be
\* configured to; -1 disables a budget.
Budgets == {[max_events |-> -1, max_segments |-> 1, max_trimming |-> 2],
            [max_events |-> 1, max_segments |-> -1, max_trimming |-> 1],
            [max_events |-> 0, max_segments |-> -1, max_trimming |-> 2]}
\* What the read of ls->num_events in trim() may return once _trimmed has
\* deleted ls: the stale count, or a value the allocator left there.
FreedReads == {[stale |-> TRUE, val |-> 0], [stale |-> FALSE, val |-> 0],
               [stale |-> FALSE, val |-> 9]}

VARIABLES
  \* ---- the Journaler (the streamer) and the journal in the object store
  stream,          \* the entries appended so far, from byte 0
  write_pos, read_pos, expire_pos,
  flush_pos,       \* flush requested up to here
  safe_pos,        \* durable up to here
  received_pos,    \* prefetched (readable) up to here
  on_readable,     \* a wait_for_readable callback is registered
  waitfor_flush,   \* contexts given to Journaler::flush, each with its position
  head_expire,     \* expire_pos of the head last written to the store
  \* ---- MDLog
  segments,        \* map<off_t,LogSegment*>: offset -> LogSegment::num_events
  num_events, unflushed, capped, writing_subtree_map,
  trimming_segments,
  waitfor_replay,
  max_events, max_segments, max_trimming,
  mds_log,         \* g_conf.mds_log: the journal is in use
  period,          \* log_inode.layout.period()
  \* ---- the replay thread
  pc, new_expire_pos,
  \* ---- the cache and the host
  armed,           \* per segment, how many expiry barriers have a finisher set
  applied,         \* entry positions given to LogEvent::replay, in order
  phase,           \* "fresh", "opened", "replaying", "active"
  restarts,
  \* ---- history (read by the properties only)
  consumed,        \* entry positions read by the replay thread, in order
  finished,        \* contexts completed by replay, in order
  replay_from,     \* expire_pos when replay() was called
  life,            \* this incarnation's log: where it starts, whether it expired a
                   \* segment, whether its replay thread waited
  last             \* the operation that ran last, with its inputs

jvars == <<stream, write_pos, read_pos, expire_pos, flush_pos, safe_pos,
           received_pos, on_readable, waitfor_flush, head_expire>>
mvars == <<segments, num_events, unflushed, capped, writing_subtree_map,
           trimming_segments, waitfor_replay, max_events, max_segments, max_trimming, mds_log, period>>
tvars == <<pc, new_expire_pos>>
evars == <<armed, applied, phase, restarts>>
hvars == <<consumed, finished, replay_from, life, last>>
vars == <<jvars, mvars, tvars, evars, hvars>>

\* ------------------------------------------------------------ the journal
SUBTREEMAP == "SUBTREEMAP"
EVENT == "EVENT"

Entry(type) == [type |-> type, len |-> IF type = SUBTREEMAP THEN SubtreeMapLen ELSE EventLen]

RECURSIVE SumLen(_, _)
\* The byte length of the first n entries of s.
SumLen(s, n) == IF n = 0 THEN 0 ELSE SumLen(s, n - 1) + s[n].len

\* The position at which entry i of s starts.
PosOf(s, i) == SumLen(s, i - 1)
EndOf(s) == SumLen(s, Len(s))
\* The positions at which an entry of s starts or ends.
Boundaries(s) == {SumLen(s, n) : n \in 0..Len(s)}
\* The index of the entry that starts at pos.
IndexAt(s, pos) == CHOOSE i \in 1..Len(s) : PosOf(s, i) = pos
\* The entries of s that lie below position p.
Prefix(s, p) == SubSeq(s, 1, Cardinality({i \in 1..Len(s) : PosOf(s, i) < p}))

\* -------------------------------------------------------- the segment map
NoSegments == [k \in {} |-> 0]
Keys(segs) == DOMAIN segs
MinKey(segs) == CHOOSE k \in Keys(segs) : \A j \in Keys(segs) : k <= j
MaxKey(segs) == CHOOSE k \in Keys(segs) : \A j \in Keys(segs) : k >= j
\* segments[off] = new LogSegment(off)
SegInsert(segs, off) == [k \in Keys(segs) \cup {off} |-> IF k = off THEN 0 ELSE segs[k]]
\* segments.erase(off)
SegErase(segs, off) == [k \in Keys(segs) \ {off} |-> segs[k]]
\* The barriers (C_Gather with a C_MaybeTrimmedSegment finisher) outstanding
\* per segment: set_finisher adds one, its completion takes one away.
NoBarriers == [k \in {} |-> 0]
Arm(b, ls) == [k \in DOMAIN b \cup {ls} |-> IF k \in DOMAIN b THEN b[k] + (IF k = ls THEN 1 ELSE 0) ELSE 1]
Disarm(b, ls) == [k \in {j \in DOMAIN b : j # ls \/ b[j] > 1} |-> IF k = ls THEN b[k] - 1 ELSE b[k]]
RECURSIVE SumEvents(_, _)
SumEvents(segs, ks) ==
  IF ks = {} THEN 0
  ELSE LET k == CHOOSE x \in ks : TRUE IN segs[k] + SumEvents(segs, ks \ {k})

\* The keys of segs in ascending order: the order a map iterator visits them.
RECURSIVE Ascending(_)
Ascending(ks) ==
  IF ks = {} THEN <<>>
  ELSE LET k == CHOOSE x \in ks : \A y \in ks : x <= y IN <<k>> \o Ascending(ks \ {k})

\* The record of an operation: its name, for the trimmer the segments the
\* cache gave a barrier for and the reason trim()'s loop ended, the contexts
\* the operation completed and the context it was called with.  Operations the
\* properties need not tell apart are recorded under the empty name.
Did(name) == [op |-> name, barred |-> {}, stop |-> "", fired |-> {}, ctx |-> ""]

\* --------------------------------------------------------------- appender
\* The part of the state submit_entry and start_new_segment work on.
Appender ==
  [segments |-> segments, num_events |-> num_events, unflushed |-> unflushed,
   writing_subtree_map |-> writing_subtree_map, stream |-> stream,
   write_pos |-> write_pos, flush_pos |-> flush_pos, waitfor_flush |-> waitfor_flush,
   fired |-> {}, ctx |-> ""]

\* Journaler::append_entry
append_entry(a, type) ==
  [a EXCEPT !.stream = Append(@, Entry(type)), !.write_pos = @ + Entry(type).len]

\* Journaler::flush(c): ask for everything written so far to be made durable;
\* c, when given, completes once it is.
journaler_flush(a, ctx) ==
  [a EXCEPT !.flush_pos = a.write_pos,
            !.waitfor_flush = IF ctx = "" THEN @ ELSE @ \cup {[ctx |-> ctx, pos |-> a.write_pos]}]

\* get_last_segment_offset()
get_last_segment_offset(a) == MaxKey(a.segments)

\* submit_entry that asks for the flush before it appends the event.
submit_body_flush_first(a, type, ctx) ==
  LET cur == MaxKey(a.segments)
      a1 == [a EXCEPT !.segments = [@ EXCEPT ![cur] = @ + 1],
                      !.num_events = @ + 1]
  IN IF ctx # ""
       THEN append_entry(journaler_flush([a1 EXCEPT !.unflushed = 0], ctx), type)
       ELSE [append_entry(a1, type) EXCEPT !.unflushed = @ + 1]

\* submit_entry up to the segment-boundary test: bind the event to the last
\* segment, count it, append it, and flush when a completion is given.
submit_body(a, type, ctx) ==
  LET cur == MaxKey(a.segments)
      a1 == [a EXCEPT !.segments = [@ EXCEPT ![cur] = @ + 1],
                      !.num_events = @ + 1]
      a2 == append_entry(a1, type)
  IN IF ctx # ""
       THEN journaler_flush([a2 EXCEPT !.unflushed = 0], ctx)
       ELSE [a2 EXCEPT !.unflushed = @ + 1]

\* The boundary test without the look at writing_subtree_map.
segment_boundary_unsuppressed(a) ==
  LET last_seg == get_last_segment_offset(a) IN
  /\ Keys(a.segments) # {}
  /\ (a.write_pos \div period) # (last_seg \div period)
  /\ a.write_pos - last_seg > period \div 2

\* The boundary test with half a period counted as substantial.
segment_boundary_from_half(a) ==
  LET last_seg == get_last_segment_offset(a) IN
  /\ Keys(a.segments) # {}
  /\ ~a.writing_subtree_map
  /\ (a.write_pos \div period) # (last_seg \div period)
  /\ a.write_pos - last_seg >= period \div 2

\* The test at the end of submit_entry: start a new segment?
segment_boundary(a) ==
  LET last_seg == get_last_segment_offset(a) IN
  /\ Keys(a.segments) # {}
  /\ ~a.writing_subtree_map
  /\ (a.write_pos \div period) # (last_seg \div period)
  /\ a.write_pos - last_seg > period \div 2

\* _logged_subtree_map(off), run by C_MDL_WroteSubtreeMap
_logged_subtree_map(w) == FALSE

\* c->finish(0): the context completes with result 0.
finish(a, ctx) ==
  LET a1 == [a EXCEPT !.fired = @ \cup {[ctx |-> ctx, r |-> 0]}]
  IN IF ctx = "WroteSubtreeMap"
       THEN [a1 EXCEPT !.writing_subtree_map = _logged_subtree_map(@)]
       ELSE a1

\* submit_entry up to the segment-boundary test, the master switch included:
\* with logging off nothing happens but the completion.
submit_checked(a, type, ctx) ==
  IF ~mds_log
    THEN IF ctx = "" THEN a ELSE finish(a, ctx)
    ELSE submit_body(a, type, ctx)

\* wait_for_sync that goes to the journal whatever the master switch says.
wait_for_sync_unchecked(a, ctx) == journaler_flush(a, ctx)

\* wait_for_sync(c)
wait_for_sync(a, ctx) ==
  IF mds_log THEN journaler_flush(a, ctx) ELSE finish(a, ctx)

\* start_new_segment that submits the subtree map before it inserts the new
\* segment, so that the subtree map is bound to the segment before.
start_new_segment_binds_predecessor(a, onsync) ==
  LET a0 == [a EXCEPT !.writing_subtree_map = TRUE]
      a1 == IF Keys(a.segments) = {}
              THEN submit_checked([a0 EXCEPT !.segments = SegInsert(@, a.write_pos)],
                                  SUBTREEMAP, "WroteSubtreeMap")
              ELSE [submit_checked(a0, SUBTREEMAP, "WroteSubtreeMap")
                      EXCEPT !.segments = SegInsert(@, a.write_pos)]
  IN IF onsync THEN wait_for_sync(a1, "onsync") ELSE a1

\* start_new_segment(onsync).  Its own submit_entry of the checkpoint runs
\* the boundary test with writing_subtree_map already set, which fails.
start_new_segment(a, onsync) ==
  LET a1 == [a EXCEPT !.segments = SegInsert(@, a.write_pos),
                      !.writing_subtree_map = TRUE]
      a2 == submit_checked(a1, SUBTREEMAP, "WroteSubtreeMap")
  IN IF onsync THEN wait_for_sync(a2, "onsync") ELSE a2

\* submit_entry(le, c)
submit_entry(a, ctx) ==
  LET a1 == submit_checked(a, EVENT, ctx)
  IN IF mds_log /\ segment_boundary(a1) THEN start_new_segment(a1, FALSE) ELSE a1

SetAppender(a) ==
  /\ segments' = a.segments
  /\ num_events' = a.num_events
  /\ unflushed' = a.unflushed
  /\ writing_subtree_map' = a.writing_subtree_map
  /\ stream' = a.stream
  /\ write_pos' = a.write_pos
  /\ flush_pos' = a.flush_pos
  /\ waitfor_flush' = a.waitfor_flush

\* submit_entry(le, c) runs and leaves the appender as a.
SubmitEntry(c, a) ==
  /\ SetAppender(a)
  /\ last' = [Did(IF Keys(a.segments) # Keys(segments) THEN "submit_new_segment" ELSE "submit")
                EXCEPT !.fired = a.fired, !.ctx = c]
  /\ UNCHANGED <<read_pos, expire_pos, safe_pos, received_pos, on_readable, head_expire,
                 capped, trimming_segments, waitfor_replay, max_events, max_segments, max_trimming, mds_log, period,
                 tvars, evars, consumed, finished, replay_from, life>>

\* The host submits an event, with or without a completion.
Submit ==
  /\ phase = "active"
  /\ mds_log => Keys(segments) # {} /\ ~capped
  /\ \E c \in {"", "on_safe"} :
       LET a == submit_entry(Appender, c) IN
       /\ a.write_pos <= MaxWritePos
       /\ SubmitEntry(c, a)

\* The host starts a new segment.
StartNewSegment ==
  /\ phase = "active"
  /\ ~writing_subtree_map
  /\ mds_log => ~capped
  /\ \E onsync \in BOOLEAN :
       LET a == start_new_segment(Appender, onsync) IN
       /\ a.write_pos <= MaxWritePos
       /\ SetAppender(a)
       /\ last' = [Did("start_new_segment")
                     EXCEPT !.fired = a.fired, !.ctx = IF onsync THEN "onsync" ELSE ""]
  /\ UNCHANGED <<read_pos, expire_pos, safe_pos, received_pos, on_readable, head_expire,
                 capped, trimming_segments, waitfor_replay, max_events, max_segments, max_trimming, mds_log, period,
                 tvars, evars, consumed, finished, replay_from, life>>

\* The host asks to be told when what is written so far is durable; it asks
\* when something is not yet durable and has one such request outstanding at
\* a time.
WaitForSync ==
  /\ phase = "active"
  /\ ~\E w \in waitfor_flush : w.ctx = "onsync"
  /\ mds_log => safe_pos < write_pos
  /\ LET a == wait_for_sync(Appender, "onsync") IN
       /\ SetAppender(a)
       /\ last' = [Did("wait_for_sync") EXCEPT !.fired = a.fired, !.ctx = "onsync"]
  /\ UNCHANGED <<read_pos, expire_pos, safe_pos, received_pos, on_readable, head_expire,
                 capped, trimming_segments, waitfor_replay, max_events, max_segments, max_trimming, mds_log, period,
                 tvars, evars, consumed, finished, replay_from, life>>

\* cap()
Cap ==
  /\ phase = "active"
  /\ ~capped
  /\ capped' = TRUE
  /\ last' = Did("")
  /\ UNCHANGED <<jvars, segments, num_events, unflushed, writing_subtree_map,
                 trimming_segments, waitfor_replay, max_events, max_segments, max_trimming, mds_log, period,
                 tvars, evars, consumed, finished, replay_from, life>>

\* ---------------------------------------------------------------- trimmer
\* The part of the state the trimmer works on, with what trim() keeps on its
\* stack (left) and what the properties want to know of the run (barred: the
\* segments try_to_expire gave a barrier for; stop: why the loop ended).
Trimmer ==
  [segments |-> segments, num_events |-> num_events, expire_pos |-> expire_pos,
   trimming_segments |-> trimming_segments, armed |-> armed,
   left |-> num_events, barred |-> {}, stop |-> ""]

\* get_current_segment(): the segment with the largest offset.
get_current_segment(t) == MaxKey(t.segments)

\* _trimmed that sets expire_pos for whichever segment it removes.
_trimmed_moves_expire_pos(t, ls) ==
  IF ~capped /\ ls = get_current_segment(t)
    THEN t
    ELSE [t EXCEPT !.num_events = @ - t.segments[ls],
                   !.expire_pos = ls,
                   !.segments = SegErase(@, ls)]

\* _trimmed without its first test: the write tip is expired like any other.
_trimmed_tip_too(t, ls) ==
  [t EXCEPT !.num_events = @ - t.segments[ls],
            !.expire_pos = IF MinKey(t.segments) = ls THEN ls ELSE @,
            !.segments = SegErase(@, ls)]

\* _trimmed(ls)
_trimmed(t, ls) ==
  IF ~capped /\ ls = get_current_segment(t)
    THEN t
    ELSE [t EXCEPT !.num_events = @ - t.segments[ls],
                   !.expire_pos = IF MinKey(t.segments) = ls THEN ls ELSE @,
                   !.segments = SegErase(@, ls)]

\* try_trim(ls): barrier says whether ls->try_to_expire(mds) returns a gather.
try_trim(t, ls, barrier) ==
  IF barrier
    THEN [t EXCEPT !.trimming_segments = @ \cup {ls},
                   !.armed = Arm(@, ls),
                   !.barred = @ \cup {ls}]
    ELSE _trimmed(t, ls)

\* The budget test of trim()'s while loop.
over_budget(t) ==
  \/ max_events >= 0 /\ t.left > max_events
  \/ /\ max_segments >= 0
     /\ Cardinality(Keys(t.segments)) - Cardinality(t.trimming_segments) > max_segments

\* The test on the trimming set with > for >=.
trimming_full_off_by_one(t) == Cardinality(t.trimming_segments) > max_trimming

\* The test that ends trim()'s loop when enough segments are expiring.
trimming_full(t) == Cardinality(t.trimming_segments) >= max_trimming

\* The loop body of trim() without its test of the trimming set.
trim_segment_again(t, ls, barrier) == try_trim(t, ls, barrier)

\* The loop body of trim(): a segment that is already expiring is passed over.
trim_segment(t, ls, barrier) ==
  IF ls \in t.trimming_segments THEN t ELSE try_trim(t, ls, barrier)

RECURSIVE trim_loop(_, _, _, _, _)
\* The while loop of trim(): ks are the segments the iterator p has yet to
\* visit, ticks the iterations that start before the two seconds are over,
\* bar the segments that have work outstanding in the cache, fr what the read
\* of a deleted segment's num_events returns.
trim_loop(t, ks, ticks, bar, fr) ==
  IF ks = <<>> THEN [t EXCEPT !.stop = "end"]
  ELSE IF ~over_budget(t) THEN [t EXCEPT !.stop = "budget"]
  ELSE IF ticks = 0 THEN [t EXCEPT !.stop = "deadline"]
  ELSE IF trimming_full(t) THEN [t EXCEPT !.stop = "max_trimming"]
  ELSE
    LET ls == Head(ks)
        t1 == trim_segment(t, ls, ls \in bar)
        n  == IF ls \in Keys(t1.segments) \/ fr.stale THEN t.segments[ls] ELSE fr.val
    IN trim_loop([t1 EXCEPT !.left = @ - n], Tail(ks), ticks - 1, bar, fr)

\* trim()
trim(t, ticks, bar, fr) ==
  IF Keys(t.segments) = {} THEN [t EXCEPT !.stop = "empty"]
  ELSE trim_loop(t, Ascending(Keys(t.segments)), ticks, bar, fr)

SetTrimmer(t) ==
  /\ life' = [life EXCEPT !.expired = @ \/ Keys(t.segments) # Keys(segments)]
  /\ segments' = t.segments
  /\ num_events' = t.num_events
  /\ expire_pos' = t.expire_pos
  /\ trimming_segments' = t.trimming_segments
  /\ armed' = t.armed

\* The inputs of one trim(): how many iterations start before the deadline,
\* which segments have work outstanding, and what a freed read returns (it
\* is only ever compared with max_events).
TrimInputs ==
  (0..Cardinality(Keys(segments)))
    \X (SUBSET (Keys(segments) \ trimming_segments))
    \X (IF max_events < 0 THEN {[stale |-> TRUE, val |-> 0]} ELSE FreedReads)

\* The host calls trim().
Trim ==
  /\ phase = "active"
  /\ \E in \in TrimInputs :
       LET t == trim(Trimmer, in[1], in[2], in[3]) IN
       /\ SetTrimmer(t)
       /\ last' = [op |-> "trim", barred |-> t.barred, stop |-> t.stop, fired |-> {}, ctx |-> ""]
  /\ UNCHANGED <<stream, write_pos, read_pos, flush_pos, safe_pos, received_pos, on_readable,
                 waitfor_flush, head_expire, unflushed, capped, writing_subtree_map,
                 waitfor_replay, max_events, max_segments, max_trimming, mds_log, period, tvars, applied, phase, restarts,
                 consumed, finished, replay_from>>

\* flush(): flush what is unflushed, then trim.
Flush ==
  /\ phase = "active"
  /\ flush_pos' = IF unflushed # 0 THEN write_pos ELSE flush_pos
  /\ unflushed' = 0
  /\ \E in \in TrimInputs :
       LET t == trim(Trimmer, in[1], in[2], in[3]) IN
       /\ SetTrimmer(t)
       /\ last' = [op |-> "trim", barred |-> t.barred, stop |-> t.stop, fired |-> {}, ctx |-> ""]
  /\ UNCHANGED <<stream, write_pos, read_pos, safe_pos, received_pos, on_readable,
                 waitfor_flush, head_expire, capped, writing_subtree_map,
                 waitfor_replay, max_events, max_segments, max_trimming, mds_log, period, tvars, applied, phase, restarts,
                 consumed, finished, replay_from>>

\* A barrier completes and its finisher, C_MaybeTrimmedSegment, runs
\* _maybe_trimmed(ls): take ls out of the trimming set and try again.
MaybeTrimmed ==
  /\ phase = "active"
  /\ \E ls \in DOMAIN armed, barrier \in BOOLEAN :
       LET t0 == [Trimmer EXCEPT !.armed = Disarm(@, ls),
                                 !.trimming_segments = @ \ {ls}]
           t == try_trim(t0, ls, barrier)
       IN /\ ls \in trimming_segments
          /\ SetTrimmer(t)
          /\ last' = [op |-> "maybe_trimmed", barred |-> t.barred, stop |-> "", fired |-> {}, ctx |-> ""]
  /\ UNCHANGED <<stream, write_pos, read_pos, flush_pos, safe_pos, received_pos, on_readable,
                 waitfor_flush, head_expire, unflushed, capped, writing_subtree_map,
                 waitfor_replay, max_events, max_segments, max_trimming, mds_log, period, tvars, applied, phase, restarts,
                 consumed, finished, replay_from>>

\* -------------------------------------------------------------- lifecycle
\* create(c): a new Journaler, reset to empty, and its head written.
Create ==
  /\ phase = "fresh"
  /\ restarts = 0
  /\ write_pos' = 0 /\ read_pos' = 0 /\ expire_pos' = 0
  /\ flush_pos' = 0 /\ safe_pos' = 0 /\ received_pos' = 0
  /\ head_expire' = 0
  /\ phase' = "active"
  /\ life' = [start |-> 0, expired |-> FALSE, waited |-> FALSE]
  /\ last' = Did("create")
  /\ UNCHANGED <<stream, on_readable, waitfor_flush, mvars, tvars, armed, applied, restarts,
                 consumed, finished, replay_from>>

\* open(c): a new Journaler that recovers the journal's bounds: the head gives
\* expire_pos, the end of what is in the store gives write_pos.
Open ==
  /\ phase = "fresh"
  /\ restarts > 0
  /\ expire_pos' = head_expire /\ read_pos' = head_expire /\ received_pos' = head_expire
  /\ write_pos' = EndOf(stream) /\ flush_pos' = EndOf(stream) /\ safe_pos' = EndOf(stream)
  /\ phase' = "opened"
  /\ last' = Did("")
  /\ UNCHANGED <<stream, on_readable, waitfor_flush, head_expire, mvars, tvars, armed, applied,
                 restarts, consumed, finished, replay_from, life>>

\* append(): position at the end of the journal.
AppendAtEnd ==
  /\ phase = "opened"
  /\ read_pos' = write_pos /\ received_pos' = write_pos
  /\ expire_pos' = write_pos
  /\ phase' = "active"
  /\ life' = [start |-> write_pos, expired |-> FALSE, waited |-> FALSE]
  /\ last' = Did("")
  /\ UNCHANGED <<stream, write_pos, flush_pos, safe_pos, on_readable, waitfor_flush, head_expire,
                 mvars, tvars, armed, applied, restarts, consumed, finished, replay_from>>

\* The server goes down and a new MDLog is constructed over the same journal.
\* What was flushed and acknowledged is in the store; what was flushed and
\* not yet acknowledged may be; the rest is lost with the write buffer.
Restart ==
  /\ phase = "active"
  /\ restarts < MaxRestarts
  /\ \E cut \in Boundaries(stream) :
       /\ safe_pos <= cut /\ cut <= flush_pos
       /\ stream' = Prefix(stream, cut)
  /\ restarts' = restarts + 1
  /\ phase' = "fresh"
  /\ write_pos' = 0 /\ read_pos' = 0 /\ expire_pos' = 0
  /\ flush_pos' = 0 /\ safe_pos' = 0 /\ received_pos' = 0
  /\ on_readable' = FALSE /\ waitfor_flush' = {}
  /\ segments' = NoSegments /\ num_events' = 0 /\ unflushed' = 0
  /\ capped' = FALSE /\ writing_subtree_map' = FALSE
  /\ trimming_segments' = {} /\ waitfor_replay' = <<>>
  /\ pc' = "none" /\ new_expire_pos' = 0
  /\ armed' = NoBarriers /\ applied' = <<>>
  /\ consumed' = <<>> /\ finished' = <<>> /\ replay_from' = 0
  /\ life' = [start |-> 0, expired |-> FALSE, waited |-> FALSE]
  /\ last' = Did("")
  /\ UNCHANGED <<head_expire, max_events, max_segments, max_trimming, mds_log, period>>

\* ----------------------------------------------------- the Journaler's I/O

\* The store acknowledges what was flushed: everything below flush_pos is
\* durable, and the contexts waiting for a position at or below it complete.
JournalerFlushAck ==
  /\ phase = "active"
  /\ LET p == flush_pos
         done == {w \in waitfor_flush : w.pos <= p} IN
       /\ p > safe_pos \/ done # {}
       /\ safe_pos' = p
       /\ waitfor_flush' = waitfor_flush \ done
       /\ writing_subtree_map' =
            IF \E w \in done : w.ctx = "WroteSubtreeMap"
              THEN _logged_subtree_map(writing_subtree_map)
              ELSE writing_subtree_map
       /\ last' = [Did("") EXCEPT !.fired = {[ctx |-> w.ctx, r |-> 0] : w \in done}]
  /\ UNCHANGED <<stream, write_pos, read_pos, expire_pos, flush_pos, received_pos, on_readable,
                 head_expire, segments, num_events, unflushed, capped, trimming_segments,
                 waitfor_replay, max_events, max_segments, max_trimming, mds_log, period, tvars, evars,
                 consumed, finished, replay_from, life>>

\* The Journaler writes its head, as it does from time to time.  The head
\* never names a position the store does not hold yet.
JournalerWriteHead ==
  /\ phase = "active"
  /\ head_expire # expire_pos
  /\ expire_pos <= safe_pos
  /\ head_expire' = expire_pos
  /\ last' = Did("")
  /\ UNCHANGED <<stream, write_pos, read_pos, expire_pos, flush_pos, safe_pos, received_pos,
                 on_readable, waitfor_flush, mvars, tvars, evars,
                 consumed, finished, replay_from, life>>

\* A completion that signals nothing.
C_MDL_Replay_finish_silent(at) == at

\* C_MDL_Replay::finish: replay_cond.Signal() wakes the thread if it waits.
C_MDL_Replay_finish(at) == IF at = "wait" THEN "loop" ELSE at

\* A read of the journal completes: more entries are readable, and the
\* readability callback, if one is registered, runs.
JournalerPrefetch ==
  /\ phase = "replaying"
  /\ \E p \in Boundaries(stream) :
       /\ received_pos < p /\ p <= write_pos
       /\ received_pos' = p
  /\ on_readable' = FALSE
  /\ pc' = IF on_readable THEN C_MDL_Replay_finish(pc) ELSE pc
  /\ last' = Did("")
  /\ UNCHANGED <<stream, write_pos, read_pos, expire_pos, flush_pos, safe_pos, waitfor_flush,
                 head_expire, mvars, new_expire_pos, evars,
                 consumed, finished, replay_from, life>>

\* --------------------------------------------------------------- replayer
\* Journaler::is_readable
is_readable == read_pos < received_pos

\* finish_contexts(ls, r): each context of ls completes with result r.
finish_contexts(ls, r) == [i \in 1..Len(ls) |-> [ctx |-> ls[i], r |-> r]]

\* The test replay() makes for an empty journal.
replay_empty_never(rp, wp) == FALSE
replay_empty(rp, wp) == rp = wp

\* replay(c), on a log just opened or just created: start reading at the
\* last known expire point; an empty journal completes c at once, any other
\* starts the replay thread.
Replay ==
  /\ phase = "opened" \/ (phase = "active" /\ last.op = "create")
  /\ read_pos' = expire_pos /\ received_pos' = expire_pos
  /\ replay_from' = expire_pos
  /\ life' = [start |-> expire_pos, expired |-> FALSE, waited |-> FALSE]
  /\ \E c \in BOOLEAN :
       LET given == IF c THEN <<"on_complete">> ELSE <<>> IN
       IF replay_empty(expire_pos, write_pos)
         THEN /\ finished' = finished \o finish_contexts(given, 0)
              /\ phase' = "active"
              /\ last' = [Did("replay") EXCEPT !.ctx = IF c THEN "on_complete" ELSE "",
                                                !.fired = {x \in {[ctx |-> "on_complete", r |-> 0]} : c}]
              /\ UNCHANGED <<waitfor_replay, pc>>
         ELSE /\ waitfor_replay' = waitfor_replay \o given
              /\ num_events = 0
              /\ pc' = "start"
              /\ phase' = "replaying"
              /\ last' = [Did("replay") EXCEPT !.ctx = IF c THEN "on_complete" ELSE ""]
              /\ UNCHANGED finished
  /\ UNCHANGED <<stream, write_pos, expire_pos, flush_pos, safe_pos, on_readable, waitfor_flush,
                 head_expire, segments, num_events, unflushed, capped, writing_subtree_map,
                 trimming_segments, max_events, max_segments, max_trimming, mds_log, period, new_expire_pos,
                 armed, applied, restarts, consumed>>

\* The thread takes the lock and reads the expire position.
ReplayThreadStart ==
  /\ pc = "start"
  /\ new_expire_pos' = expire_pos
  /\ pc' = "loop"
  /\ last' = Did("")
  /\ UNCHANGED <<jvars, mvars, evars, consumed, finished, replay_from, life>>

\* Nothing is readable yet and the end is not reached: register the
\* readability callback and wait on replay_cond, which gives up the lock.
ReplayThreadWait ==
  /\ pc = "loop"
  /\ ~is_readable /\ read_pos < write_pos
  /\ on_readable' = TRUE
  /\ pc' = "wait"
  /\ life' = [life EXCEPT !.waited = TRUE]
  /\ last' = Did("")
  /\ UNCHANGED <<stream, write_pos, read_pos, expire_pos, flush_pos, safe_pos, received_pos,
                 waitfor_flush, head_expire, mvars, new_expire_pos, evars,
                 consumed, finished, replay_from>>

\* The new value of new_expire_pos once the entry at pos has been replayed.
first_replayed(nep, pos) == IF nep = 0 THEN pos ELSE nep

\* The loop body with the count taken only for the entries that are not
\* subtree maps.
replay_entry_counts_events_only(r, type, pos) ==
  LET segs == IF type = SUBTREEMAP THEN SegInsert(r.segments, pos) ELSE r.segments
  IN IF Keys(segs) = {}
       THEN [r EXCEPT !.segments = segs]
       ELSE [r EXCEPT !.segments = segs,
                      !.applied = Append(@, pos),
                      !.num_events = IF type = SUBTREEMAP THEN @ ELSE @ + 1,
                      !.new_expire_pos = first_replayed(@, pos)]

\* What the loop body does with the entry of the given type read at pos, on
\* r = the segment map, num_events, new_expire_pos and the cache's record.
replay_entry(r, type, pos) ==
  LET segs == IF type = SUBTREEMAP THEN SegInsert(r.segments, pos) ELSE r.segments
  IN IF Keys(segs) = {}
       THEN [r EXCEPT !.segments = segs]
       ELSE [r EXCEPT !.segments = segs,
                      !.applied = Append(@, pos),
                      !.num_events = @ + 1,
                      !.new_expire_pos = first_replayed(@, pos)]

\* One turn of the loop: read the entry at read_pos, replay it, and let the
\* lock go for a moment.
ReplayThreadRead ==
  /\ pc = "loop"
  /\ is_readable
  /\ LET pos == read_pos
         e == stream[IndexAt(stream, pos)]
         r == replay_entry([segments |-> segments, num_events |-> num_events,
                            new_expire_pos |-> new_expire_pos, applied |-> applied],
                           e.type, pos)
     IN /\ read_pos' = pos + e.len
        /\ consumed' = Append(consumed, pos)
        /\ segments' = r.segments
        /\ num_events' = r.num_events
        /\ new_expire_pos' = r.new_expire_pos
        /\ applied' = r.applied
  /\ last' = Did("")
  /\ UNCHANGED <<stream, write_pos, expire_pos, flush_pos, safe_pos, received_pos, on_readable,
                 waitfor_flush, head_expire, unflushed, capped, writing_subtree_map,
                 trimming_segments, waitfor_replay, max_events, max_segments, max_trimming, mds_log, period, pc,
                 armed, phase, restarts, finished, replay_from, life>>

\* Nothing is readable and the end is reached: leave the loop, move the read
\* and expire positions back, and complete the waiters.
ReplayThreadFinish ==
  /\ pc = "loop"
  /\ ~is_readable /\ read_pos = write_pos
  /\ read_pos' = new_expire_pos /\ received_pos' = new_expire_pos
  /\ expire_pos' = new_expire_pos
  /\ finished' = finished \o finish_contexts(waitfor_replay, 0)
  /\ waitfor_replay' = <<>>
  /\ pc' = "done"
  /\ phase' = "active"
  /\ last' = Did("replay_done")
  /\ UNCHANGED <<stream, write_pos, flush_pos, safe_pos, on_readable, waitfor_flush, head_expire,
                 segments, num_events, unflushed, capped, writing_subtree_map,
                 trimming_segments, max_events, max_segments, max_trimming, mds_log, period, new_expire_pos,
                 armed, applied, restarts, consumed, replay_from, life>>

\* ------------------------------------------------------- the specification
Init ==
  /\ stream = <<>>
  /\ write_pos = 0 /\ read_pos = 0 /\ expire_pos = 0
  /\ flush_pos = 0 /\ safe_pos = 0 /\ received_pos = 0
  /\ on_readable = FALSE /\ waitfor_flush = {} /\ head_expire = 0
  /\ segments = NoSegments /\ num_events = 0 /\ unflushed = 0
  /\ capped = FALSE /\ writing_subtree_map = FALSE
  /\ trimming_segments = {} /\ waitfor_replay = <<>>
  /\ \E b \in Budgets : /\ max_events = b.max_events
                         /\ max_segments = b.max_segments
                         /\ max_trimming = b.max_trimming
  /\ mds_log \in BOOLEAN
  /\ period = Period
  /\ pc = "none" /\ new_expire_pos = 0
  /\ armed = NoBarriers /\ applied = <<>> /\ phase = "fresh" /\ restarts = 0
  /\ consumed = <<>> /\ finished = <<>> /\ replay_from = 0
  /\ life = [start |-> 0, expired |-> FALSE, waited |-> FALSE]
  /\ last = Did("")

Next ==
  \/ Create
  \/ Open
  \/ AppendAtEnd
  \/ Replay
  \/ Submit
  \/ StartNewSegment
  \/ WaitForSync
  \/ Flush
  \/ Trim
  \/ MaybeTrimmed
  \/ Cap
  \/ Restart
  \/ JournalerFlushAck
  \/ JournalerWriteHead
  \/ JournalerPrefetch
  \/ ReplayThreadStart
  \/ ReplayThreadWait
  \/ ReplayThreadRead
  \/ ReplayThreadFinish

Spec == Init /\ [][Next]_vars

\* The replay thread is an OS thread that runs whenever it can take the lock,
\* and the journal's reads complete and deliver their callbacks.
LiveSpec ==
  /\ Spec
  /\ WF_vars(ReplayThreadStart) /\ WF_vars(ReplayThreadWait)
  /\ WF_vars(ReplayThreadRead) /\ WF_vars(ReplayThreadFinish)
  /\ WF_vars(JournalerPrefetch)

\* ---------------------------------------------- the boundary policy alone
\* A log that was positioned at the tail of a journal of `off` bytes (created,
\* when off = 0), started its first segment there and has since been given n
\* events without a completion; the flush of the subtree map is acknowledged
\* or not.
PolicyInit ==
  \E off \in {0} \cup (SubtreeMapLen..PolicyMaxOffset), n \in 0..PolicyMaxEvents,
     inflight \in BOOLEAN, p \in Periods, b \in Budgets :
    LET old == IF off = 0 THEN <<>>
               ELSE <<Entry(SUBTREEMAP)>> \o [i \in 1..(off - SubtreeMapLen) |-> Entry(EVENT)]
        durable == off + SubtreeMapLen
    IN
    /\ stream = old \o <<Entry(SUBTREEMAP)>> \o [i \in 1..n |-> Entry(EVENT)]
    /\ write_pos = durable + n * EventLen
    /\ read_pos = off /\ expire_pos = off /\ received_pos = off
    /\ flush_pos = durable
    /\ safe_pos = IF inflight THEN off ELSE durable
    /\ on_readable = FALSE /\ head_expire = 0
    /\ waitfor_flush = IF inflight THEN {[ctx |-> "WroteSubtreeMap", pos |-> durable]} ELSE {}
    /\ segments = [k \in {off} |-> n + 1] /\ num_events = n + 1 /\ unflushed = n
    /\ capped = FALSE /\ writing_subtree_map = inflight
    /\ trimming_segments = {} /\ waitfor_replay = <<>>
    /\ max_events = b.max_events /\ max_segments = b.max_segments
    /\ max_trimming = b.max_trimming
    /\ mds_log = TRUE /\ period = p
    /\ pc = "none" /\ new_expire_pos = 0
    /\ armed = NoBarriers /\ applied = <<>> /\ phase = "active"
    /\ restarts = IF off = 0 THEN 0 ELSE 1
    /\ consumed = <<>> /\ finished = <<>> /\ replay_from = 0
    /\ life = [start |-> off, expired |-> FALSE, waited |-> FALSE]
    /\ last = Did("")

\* The host submits an event.
PolicySubmit ==
  \E c \in {"", "on_safe"} :
    LET a == submit_entry(Appender, c) IN
    /\ a.write_pos <= PolicyMaxWritePos
    /\ SubmitEntry(c, a)

PolicyNext == PolicySubmit

PolicySpec == PolicyInit /\ [][PolicyNext]_vars

\* ============================================================ properties
\* The log is at a public API boundary: constructed and opened or created,
\* and no replay thread in its loop.
AtBoundary == phase \in {"opened", "active"}

\* C1: at every public API boundary expire_pos <= read_pos <= write_pos.
C1_OffsetsOrdered == AtBoundary => expire_pos <= read_pos /\ read_pos <= write_pos

\* C2: whenever the segment table is non-empty and the journal is not
\* mid-replay, the minimum key of the table equals expire_pos.
C2_MinKeyIsExpirePos ==
  phase = "active" /\ Keys(segments) # {} => MinKey(segments) = expire_pos

\* C3: at every public API boundary num_events is the sum of num_events over
\* the segments in the table, also once a replay has completed.
C3_NumEventsIsSum == AtBoundary => num_events = SumEvents(segments, Keys(segments))

\* C4: while the log is not capped no step of the trimmer removes the
\* segment with the largest key, so a non-empty table stays non-empty.
C4_CurrentSegmentKept ==
  [][phase = "active" /\ phase' = "active" /\ ~capped /\ Keys(segments) # {}
       => MaxKey(segments) \in Keys(segments')]_vars

\* C4's case: trim() went through the whole table of an uncapped log that is
\* over its event budget, asked to expire the only segment left and got no
\* barrier, and the segment is still there.
C4_Witness ==
  /\ last.op = "trim" /\ last.stop = "end" /\ last.barred = {}
  /\ ~capped
  /\ Cardinality(Keys(segments)) = 1
  /\ max_events >= 0 /\ num_events > max_events

\* C5: the trimming set never holds more than max_trimming segments.
C5_TrimmingBounded == Cardinality(trimming_segments) <= max_trimming

\* C5's case: a trim() stopped because the trimming set was full, and a
\* barrier completion has since taken a segment out and put it back.
C5_Witness ==
  /\ last.op = "maybe_trimmed" /\ last.barred # {}
  /\ Cardinality(trimming_segments) = max_trimming
  /\ Cardinality(Keys(segments)) > max_trimming

\* The k largest keys of segs.
Newest(segs, k) ==
  {x \in Keys(segs) : Cardinality({y \in Keys(segs) : y > x}) < k}

\* C6: with no barrier pending, the event budget off and the log not capped,
\* one trim() that is not cut short by its deadline, on a table of more than
\* max_segments segments, leaves exactly the max_segments newest segments and
\* leaves expire_pos at the offset of the oldest segment that survives.
C6_TrimRemovesOldest ==
  [][phase = "active" /\ last'.op = "trim" /\ last'.barred = {}
       /\ last'.stop \in {"budget", "end"}
       /\ trimming_segments = {} /\ max_events < 0 /\ ~capped
       /\ max_segments >= 1 /\ Cardinality(Keys(segments)) > max_segments
       => /\ Keys(segments') = Newest(segments, max_segments)
          /\ expire_pos' = MinKey(segments')]_vars

\* The positions of the entries of the journal from position p on.
EntriesFrom(p) == {q \in {PosOf(stream, i) : i \in 1..Len(stream)} : q >= p}
\* The positions the replay thread has read, and has applied to the cache.
Consumed == {consumed[i] : i \in 1..Len(consumed)}
Applied == {applied[i] : i \in 1..Len(applied)}
\* The positions of the subtree maps the replay thread has read.
CheckpointsRead == {p \in Consumed : stream[IndexAt(stream, p)].type = SUBTREEMAP}
FirstCheckpointRead == CHOOSE p \in CheckpointsRead : \A q \in CheckpointsRead : p <= q

\* C7: when the replay of a non-empty journal completes, read_pos and
\* expire_pos are both the position of the first subtree map that was read,
\* whatever the position the replay started from and wherever that subtree
\* map is.
C7_RewindToFirstCheckpoint ==
  last.op = "replay_done" /\ CheckpointsRead # {}
    => read_pos = FirstCheckpointRead /\ expire_pos = FirstCheckpointRead

\* A replay that read a subtree map has completed.
ReplayedCheckpoint == last.op = "replay_done" /\ CheckpointsRead # {}
\* Every entry from the start of the replay on was read, those before the
\* first subtree map were not applied, and a segment stands at its position.
SkipsToCheckpoint ==
  /\ Consumed = EntriesFrom(replay_from)
  /\ \A p \in Consumed : p < FirstCheckpointRead => p \notin Applied
  /\ FirstCheckpointRead \in Keys(segments)

\* C8 as stated: entries read before the first subtree map are consumed but
\* neither applied nor counted, a segment is created at the subtree map's
\* position, and num_events ends as the number of entries that follow the
\* subtree map.
C8_CountsWhatFollows ==
  ReplayedCheckpoint
    => /\ SkipsToCheckpoint
       /\ num_events = Cardinality({p \in Consumed : p > FirstCheckpointRead})

\* C8: entries read before the first subtree map are consumed but neither
\* applied nor counted, a segment is created at the subtree map's position,
\* and num_events ends as the number of entries from the subtree map on, the
\* subtree map itself included; these are the entries applied.
C8_CountsFromCheckpoint ==
  ReplayedCheckpoint
    => /\ SkipsToCheckpoint
       /\ Applied = {p \in Consumed : p >= FirstCheckpointRead}
       /\ num_events = Cardinality({p \in Consumed : p >= FirstCheckpointRead})

\* C8's case: a replay that read an entry before its first subtree map has
\* completed.
C8_Witness ==
  /\ ReplayedCheckpoint
  /\ \E p \in Consumed : p < FirstCheckpointRead

RECURSIVE replay_loop(_, _, _)
\* The loop of the replay thread over the entries of s from index i on.
replay_loop(s, r, i) ==
  IF i > Len(s) THEN r
  ELSE replay_loop(s, replay_entry(r, s[i].type, PosOf(s, i)), i + 1)

\* What a replay of the journal as it stands, started at the persisted head,
\* ends with.
ReplayOfHead ==
  replay_loop(stream,
              [segments |-> NoSegments, num_events |-> 0,
               new_expire_pos |-> head_expire, applied |-> <<>>],
              Cardinality({i \in 1..Len(stream) : PosOf(stream, i) < head_expire}) + 1)

\* The log is not capped, everything appended has been flushed and the
\* persisted head is current.
Flushed == phase = "active" /\ ~capped /\ flush_pos = write_pos /\ head_expire = expire_pos

\* C9: once the appended entries are flushed, a replay from the persisted
\* head ends with the appender's num_events and applies the entries from the
\* first subtree map on in the order they were appended.
C9_ReplayFidelity ==
  Flushed
    => LET r == ReplayOfHead
       IN /\ r.num_events = num_events
          /\ \A i, j \in 1..Len(r.applied) : i < j => r.applied[i] < r.applied[j]

\* C10: a replay thread that has been started leaves its loop; while it
\* waits its readability callback is registered, so the wake-up reaches it;
\* it leaves the loop with read_pos = write_pos and every entry from the
\* start of the replay consumed, and at that moment, not before and not
\* again after, each waiter of the replay completes once with result 0.
C10_ReplayCompletes ==
  /\ (pc = "start") ~> (pc = "done")
  /\ [](pc = "wait" => on_readable /\ ~is_readable /\ read_pos < write_pos)
  /\ [](phase = "replaying" => finished = <<>>)
  /\ [][pc # "done" /\ pc' = "done"
         => /\ read_pos = write_pos
            /\ Consumed = EntriesFrom(replay_from)
            /\ finished' = [i \in 1..Len(waitfor_replay) |-> [ctx |-> waitfor_replay[i], r |-> 0]]
            /\ waitfor_replay' = <<>>]_vars
  /\ [][pc = "done" /\ pc' = "done" => finished' = finished]_vars

\* C10's case: a replay thread that had to wait for the journal has read two
\* or more entries, left its loop and completed a waiter.
C10_Witness ==
  /\ last.op = "replay_done" /\ life.waited
  /\ Cardinality(Consumed) >= 2
  /\ finished # <<>>

\* C11: replay(on_complete) on a journal with nothing to read completes
\* on_complete with result 0 at once, starts no replay thread, and leaves
\* num_events at 0 and the segment table empty; so does replay after create.
C11_EmptyReplay ==
  last.op = "replay" /\ read_pos = write_pos
    => /\ phase = "active" /\ pc = "none"
       /\ waitfor_replay = <<>>
       /\ num_events = 0 /\ Keys(segments) = {}
       /\ last.ctx # "" => /\ last.fired = {[ctx |-> last.ctx, r |-> 0]}
                            /\ finished = <<[ctx |-> last.ctx, r |-> 0]>>

\* C11's case: create, then replay with a completion.
C11_Witness ==
  /\ last.op = "replay" /\ last.ctx = "on_complete"
  /\ restarts = 0 /\ read_pos = write_pos

\* C12: with logging off, submit and wait_for_sync leave num_events, the
\* segment table with every segment's count, write_pos, unflushed and the
\* journal as they are, and complete the context they are given, if any, at
\* once with result 0.
C12_DisabledIsNoOp ==
  [][~mds_log /\ last'.op \in {"submit", "submit_new_segment", "wait_for_sync"}
       => /\ UNCHANGED <<num_events, segments, write_pos, unflushed, stream, flush_pos,
                         waitfor_flush>>
          /\ last'.fired = {x \in {[ctx |-> last'.ctx, r |-> 0]} : last'.ctx # ""}]_vars

\* C12's case: with logging off and a segment in the table, an event was
\* submitted with a completion.
C12_Witness ==
  /\ ~mds_log /\ Keys(segments) # {}
  /\ last.op = "submit" /\ last.ctx = "on_safe"

\* The contexts the host gives to submit and wait_for_sync.
HostContexts == {"on_safe", "onsync"}
\* The waiters a step takes out of, and puts into, the Journaler's flush list.
Released == waitfor_flush \ waitfor_flush'
Registered == waitfor_flush' \ waitfor_flush

\* C13: a context given to submit is registered at the end of its event and
\* one given to wait_for_sync at the write_pos of the call; a context
\* completes only in a step that leaves the durable position at or beyond the
\* position it was registered with; the durable position never moves back or
\* beyond what is written, and what is durable survives a restart.
C13_FiresWhenDurable ==
  [][/\ \A w \in Registered :
          /\ w.ctx = "on_safe" => w.pos = write_pos + EventLen
          /\ w.ctx = "onsync" => w.pos = write_pos'
     /\ \A x \in last'.fired :
          x.ctx \in HostContexts
            => /\ x.r = 0
               /\ IF mds_log
                    THEN \E w \in Released : w.ctx = x.ctx /\ w.pos <= safe_pos'
                    ELSE write_pos <= safe_pos'
     /\ phase' = "active" => \A w \in Released : [ctx |-> w.ctx, r |-> 0] \in last'.fired
     /\ phase = "active" /\ phase' = "active"
          => safe_pos <= safe_pos' /\ safe_pos' <= write_pos'
     /\ Len(stream') < Len(stream)
          => EndOf(stream') >= safe_pos /\ stream' = SubSeq(stream, 1, Len(stream'))]_vars

\* C13's case: the completion of a submit ran when the flush of its event
\* was acknowledged.
C13_Witness ==
  /\ mds_log /\ [ctx |-> "on_safe", r |-> 0] \in last.fired
  /\ safe_pos = write_pos /\ write_pos > SubtreeMapLen

\* The subtree maps written by start_new_segment whose flush has not been
\* acknowledged.
CheckpointsInFlight == {w \in waitfor_flush : w.ctx = "WroteSubtreeMap"}

\* C14: writing_subtree_map is true exactly while a subtree map written by
\* start_new_segment waits for its flush to be acknowledged, and no more than
\* one does at a time.
C14_WritingIffInFlight ==
  /\ writing_subtree_map <=> CheckpointsInFlight # {}
  /\ Cardinality(CheckpointsInFlight) <= 1

\* C14's case: the boundary test of a submit has started a segment and its
\* subtree map is in flight.
C14_Witness ==
  /\ last.op = "submit_new_segment"
  /\ writing_subtree_map /\ CheckpointsInFlight # {}

\* C15: when trim() returns, the trimming set has reached max_trimming, or
\* the event budget and the segment budget are both met, or the deadline has
\* passed, or the oldest segment trim() looked at has a barrier armed.
C15_TrimStopsForAReason ==
  [][phase = "active" /\ last'.op = "trim"
       => \/ Cardinality(trimming_segments') >= max_trimming
          \/ /\ max_events >= 0 => num_events' <= max_events
             /\ max_segments >= 0
                  => Cardinality(Keys(segments')) - Cardinality(trimming_segments') <= max_segments
          \/ last'.stop = "deadline"
          \/ Keys(segments) # {} /\ MinKey(segments) \in DOMAIN armed']_vars

\* C16: a submit of an event starts a new segment exactly when
\* writing_subtree_map is false, the write position after the event lies in
\* another period than the last segment's offset and is more than half a
\* period beyond it; the segment is then keyed at that write position, where
\* its subtree map is appended, and writing_subtree_map is set; otherwise the
\* table is as it was.
C16_BoundaryPolicy ==
  [][mds_log /\ last'.op \in {"submit", "submit_new_segment"}
       => LET wp == write_pos + EventLen
              last_seg == MaxKey(segments)
              due == /\ Keys(segments) # {}
                     /\ ~writing_subtree_map
                     /\ wp \div period # last_seg \div period
                     /\ wp - last_seg > period \div 2
          IN /\ Keys(segments') # Keys(segments) <=> due
             /\ due => /\ Keys(segments') = Keys(segments) \cup {wp}
                        /\ writing_subtree_map'
                        /\ stream'[Len(stream')].type = SUBTREEMAP
                        /\ PosOf(stream', Len(stream')) = wp
                        /\ write_pos' = wp + SubtreeMapLen
             /\ ~due => write_pos' = wp /\ writing_subtree_map' = writing_subtree_map]_vars

\* C16's case: a submit crossed into another period more than half a period
\* beyond the last segment and started a segment, in a layout whose half
\* period is more than one entry.
C16_Witness ==
  /\ last.op = "submit_new_segment"
  /\ period \div 2 >= SubtreeMapLen + EventLen
  /\ writing_subtree_map
  /\ MaxKey(segments) = write_pos - SubtreeMapLen

\* What a step of the appender does to the segment table: a step that starts
\* a segment keys it, above every other key, at the position where its
\* subtree map is appended and counts the subtree map in it and nowhere else;
\* a submitted event is counted in the segment with the largest key.
BindsToLastSegment ==
  LET ev == IF last'.op = "start_new_segment" THEN 0 ELSE 1
      k == write_pos + ev * EventLen
      counted(j) == IF ev = 1 /\ j = MaxKey(segments) THEN segments[j] + 1 ELSE segments[j]
  IN /\ last'.op \in {"start_new_segment", "submit_new_segment"}
          => /\ Keys(segments') = Keys(segments) \cup {k}
             /\ \A j \in Keys(segments) : j < k /\ segments'[j] = counted(j)
             /\ Len(stream') = Len(stream) + ev + 1
             /\ stream'[Len(stream')].type = SUBTREEMAP
             /\ PosOf(stream', Len(stream')) = k
             /\ segments'[k] >= 1
     /\ last'.op = "submit"
          => /\ Keys(segments') = Keys(segments)
             /\ \A j \in Keys(segments) : segments'[j] = counted(j)
             /\ stream' = Append(stream, Entry(EVENT))

\* C17 as stated: every start of a segment and every submit binds as above.
C17_BindsAlways == [][BindsToLastSegment]_vars

\* C17: with logging on, start_new_segment inserts the segment before it
\* appends the subtree map, so the subtree map is counted in the new segment,
\* whose key is the position of the subtree map and above every other key,
\* the counts of the other segments stay, and every submit is counted in the
\* segment with the largest key.
C17_BindsWhenLogging == [][mds_log => BindsToLastSegment]_vars

\* C17's case: with logging on, a second segment has been started by
\* start_new_segment and holds its subtree map.
C17_Witness ==
  /\ mds_log /\ last.op = "start_new_segment"
  /\ Cardinality(Keys(segments)) >= 2
  /\ segments[MaxKey(segments)] = 1

\* The segments a step takes out of the table.
Removed == Keys(segments) \ Keys(segments')

\* C18: a step of the trimmer that expires segments takes them out of the
\* table and their events out of num_events, and moves neither read_pos nor
\* write_pos; while the segment with the smallest key stays, expire_pos stays
\* too, and expire_pos is only ever set to the key of a segment that was the
\* oldest in the table when it was expired.
C18_OnlyOldestMovesExpirePos ==
  [][last'.op \in {"trim", "maybe_trimmed"}
       => /\ read_pos' = read_pos /\ write_pos' = write_pos
          /\ num_events' = num_events - SumEvents(segments, Removed)
          /\ \A k \in Keys(segments') : k \in Keys(segments) /\ segments'[k] = segments[k]
          /\ (Removed = {} \/ MinKey(segments) \notin Removed) => expire_pos' = expire_pos
          /\ expire_pos' # expire_pos
               => /\ expire_pos' \in Removed
                  /\ \A k \in Keys(segments) : k < expire_pos' => k \in Removed]_vars

\* C18's case: a trim of a capped log found work outstanding for the oldest
\* segment, which stays in the table, and expired a younger one, whose
\* subtree map is in the journal behind the oldest segment's.
C18_Witness ==
  /\ last.op = "trim" /\ capped
  /\ Keys(segments) # {}
  /\ last.barred = {MinKey(segments)}
  /\ \E i \in 1..Len(stream) :
       /\ stream[i].type = SUBTREEMAP
       /\ PosOf(stream, i) > MinKey(segments)
       /\ PosOf(stream, i) \notin Keys(segments)
  /\ expire_pos <= MinKey(segments)

\* C19: whatever the order of trims, submits and barrier completions, every
\* segment of the trimming set is in the segment table and has exactly one
\* barrier armed, and only those have one, so the completion that runs
\* _maybe_trimmed finds its segment in the trimming set and in the table;
\* trim() hands try_trim no segment that is in the trimming set, so none is
\* given a second barrier or expired behind its barrier's back.
C19_TrimmingSetSound ==
  [][/\ trimming_segments' \subseteq Keys(segments')
     /\ DOMAIN armed' = trimming_segments'
     /\ \A ls \in DOMAIN armed' : armed'[ls] = 1
     /\ last'.op = "trim" => (last'.barred \cup Removed) \cap trimming_segments = {}
     /\ last'.op = "maybe_trimmed"
          => \E ls \in trimming_segments :
               /\ ls \in Keys(segments)
               /\ Removed \subseteq {ls}
               /\ trimming_segments' = (trimming_segments \ {ls}) \cup last'.barred]_vars

\* C19's case: a trim went through the whole table while a segment was in
\* the trimming set and passed it over.
C19_Witness ==
  /\ last.op = "trim" /\ last.stop = "end" /\ last.barred = {}
  /\ trimming_segments # {}
  /\ Cardinality(Keys(segments)) >= 2

\* C20: once the log is open expire_pos never goes back, and it changes only
\* when a trim expires the oldest segment, when append() positions the log at
\* the end of the journal, or when a replay completes.
C20_ExpirePosMonotonic ==
  [][phase # "fresh" /\ phase' # "fresh"
       => /\ expire_pos' >= expire_pos
          /\ expire_pos' # expire_pos
               => \/ last'.op \in {"trim", "maybe_trimmed"} /\ MinKey(segments) \in Removed
                  \/ phase = "opened" /\ phase' = "active" /\ expire_pos' = write_pos
                  \/ last'.op = "replay_done"]_vars

=============================================================================
